---- MODULE Spec2Model ----
(***************************************************************************)
(* Model of the Vertex-Claude-OpenAI gateway: the POST /v1/chat/completions *)
(* handler (server.js), the streaming transcoder streamChatCompletion       *)
(* (server.js), the upstream client callClaudeMessages (vertexClient.js)    *)
(* and the request / response translators (openaiAdapter.js).               *)
(*                                                                         *)
(* Text is a sequence of units.  Every character the code looks at is one   *)
(* unit of its own (the newline, blanks, the letters of the "data:" prefix);*)
(* the inside of a JSON payload is cut into lexemes, and a two-byte UTF-8   *)
(* character is two byte units on the wire and one unit once decoded.       *)
(* JavaScript's undefined / absent property is the empty sequence None, a   *)
(* present value v is Some(v).                                              *)
(***************************************************************************)
EXTENDS Integers, Sequences, FiniteSets, TLC

None == <<>>
Some(x) == <<x>>

NL == "\n"
SP == " "

\* ---------------------------------------------------------------- bounds
MaxEvents == 3
MaxChunk == 3
HandlerMaxEvents == 1
MaxTurns == 3
MaxCallTurns == 2
NumCallers == 2
MaxTokens == 2
MaxNow == 59

\* ------------------------------------------------------- generic helpers
\* String.prototype.slice(from) / slice(0, to) on unit sequences (0-based, as in JS)
SliceFrom(s, from) == SubSeq(s, from + 1, Len(s))
SliceTo(s, to) == SubSeq(s, 1, to)

\* buffer.indexOf("\n\n"): 0-based index of the first blank-line delimiter, -1 if none
IndexOfBlankLine(s) ==
  LET hits == {i \in 1..(Len(s) - 1) : s[i] = NL /\ s[i + 1] = NL}
  IN IF hits = {} THEN -1 ELSE (CHOOSE i \in hits : \A j \in hits : i <= j) - 1

\* rawEvent.split("\n")
RECURSIVE SplitLines(_)
SplitLines(s) ==
  LET hits == {i \in 1..Len(s) : s[i] = NL}
  IN IF hits = {} THEN <<s>>
     ELSE LET i == CHOOSE i \in hits : \A j \in hits : i <= j
          IN <<SubSeq(s, 1, i - 1)>> \o SplitLines(SubSeq(s, i + 1, Len(s)))

IsSpace(u) == u \in {" ", "\t", "\r", "\n"}

\* String.prototype.trim()
RECURSIVE TrimLeft(_)
TrimLeft(s) == IF s # <<>> /\ IsSpace(Head(s)) THEN TrimLeft(Tail(s)) ELSE s
RECURSIVE TrimRight(_)
TrimRight(s) ==
  IF s # <<>> /\ IsSpace(s[Len(s)]) THEN TrimRight(SubSeq(s, 1, Len(s) - 1)) ELSE s
Trim(s) == TrimRight(TrimLeft(s))

DataPrefix == <<"d", "a", "t", "a", ":">>

\* l.startsWith("data:")
StartsWithData(l) == Len(l) >= Len(DataPrefix) /\ SubSeq(l, 1, Len(DataPrefix)) = DataPrefix

\* rawEvent.split("\n").map(trim).filter(Boolean)
EventLines(rawEvent) ==
  LET ls == SplitLines(rawEvent)
  IN SelectSeq([i \in 1..Len(ls) |-> Trim(ls[i])], LAMBDA l : l # <<>>)

\* lines.find(l => l.startsWith("data:")): Some(line) or None
FindDataLine(lines) ==
  LET ds == SelectSeq(lines, StartsWithData)
  IN IF ds = <<>> THEN None ELSE Some(Head(ds))

\* Decoded characters outside ASCII: e-acute, and the replacement character
EAcute == "U+00E9"
Replacement == "U+FFFD"

\* ------------------------------------------------------------ JSON values
\* A parsed JSON value as the transcoder reads it: its kind, its "type" property and
\* its "delta" property (None when the property is absent).
JsonObject(type, delta) == [kind |-> "object", type |-> type, delta |-> delta]
JsonNull == [kind |-> "null", type |-> None, delta |-> None]
JsonNumber == [kind |-> "number", type |-> None, delta |-> None]
JsonString == [kind |-> "string", type |-> None, delta |-> None]
Delta(type, text) == [type |-> type, text |-> text]

TextDeltaEvent(t) ==
  JsonObject(Some("content_block_delta"), Some(Delta(Some("text_delta"), Some(t))))

\* Payload texts (decoded units) the upstream of this model can produce
TextDeltaJson(quoted) ==
  <<"{\"type\":\"content_block_delta\",", "\"delta\":{\"type\":\"text_delta\",", "\"text\":">>
    \o quoted \o <<"}}">>
InputJsonDeltaJson ==
  <<"{\"type\":\"content_block_delta\",", "\"delta\":{\"type\":\"input_json_delta\",",
    "\"partial_json\":", "\"{\\\"a\\\":\"", "}}">>
MessageStopJson == <<"{\"type\":", "\"message_stop\"", "}">>
PingJson == <<"{\"type\":", "\"ping\"", "}">>
NoTextDeltaJson ==
  <<"{\"type\":\"content_block_delta\",", "\"delta\":{\"type\":\"text_delta\"", "}}">>
DoneMarkerText == <<"[DONE]">>

\* JSON.parse on the payload texts of this model: <<text, value>> pairs; any other
\* text is a SyntaxError.
JsonTable ==
  { <<TextDeltaJson(<<"\"Hel\"">>), TextDeltaEvent("Hel")>>,
    <<TextDeltaJson(<<"\"lo\"">>), TextDeltaEvent("lo")>>,
    <<TextDeltaJson(<<"\"", EAcute, "\"">>), TextDeltaEvent(EAcute)>>,
    <<TextDeltaJson(<<"\"", Replacement, "\"">>), TextDeltaEvent(Replacement)>>,
    <<TextDeltaJson(<<"\"", Replacement, Replacement, "\"">>),
      TextDeltaEvent("U+FFFD U+FFFD")>>,
    <<TextDeltaJson(<<"\"\"">>), TextDeltaEvent("")>>,
    <<NoTextDeltaJson,
      JsonObject(Some("content_block_delta"), Some(Delta(Some("text_delta"), None)))>>,
    <<InputJsonDeltaJson,
      JsonObject(Some("content_block_delta"), Some(Delta(Some("input_json_delta"), None)))>>,
    <<MessageStopJson, JsonObject(Some("message_stop"), None)>>,
    <<PingJson, JsonObject(Some("ping"), None)>>,
    <<<<"null">>, JsonNull>>,
    <<<<"42">>, JsonNumber>>,
    <<<<"\"x\"">>, JsonString>> }

JSONParse(text) ==
  IF \E p \in JsonTable : p[1] = text
  THEN [ok |-> TRUE, value |-> (CHOOSE p \in JsonTable : p[1] = text)[2]]
  ELSE [ok |-> FALSE, value |-> JsonNull]

\* ------------------------------------------------------------ TextDecoder
\* UTF-8 bytes of the model: ASCII units decode to themselves; C3 A9 is one character.
LeadByte == "0xC3"
ContByte == "0xA9"

\* The concatenation of f[lo], ..., f[hi]
RECURSIVE ConcatRange(_, _, _)
ConcatRange(f, lo, hi) ==
  IF lo > hi THEN <<>>
  ELSE IF lo = hi THEN f[lo]
  ELSE LET mid == (lo + hi) \div 2
       IN ConcatRange(f, lo, mid) \o ConcatRange(f, mid + 1, hi)

\* decoder.decode(chunk, {stream: true}): the decoder keeps an incomplete sequence
\* (pending) for the next call.  Result: [text, pending].  A lead byte followed by the
\* continuation byte is one character, a lead byte at the end is kept, and a lead byte
\* or a continuation byte on its own is U+FFFD.
DecodeStream(pending, bytes) ==
  LET s == pending \o bytes
      out == [i \in 1..Len(s) |->
                IF s[i] = LeadByte
                THEN IF i = Len(s) \/ s[i + 1] = ContByte THEN <<>> ELSE <<Replacement>>
                ELSE IF s[i] = ContByte
                THEN IF i > 1 /\ s[i - 1] = LeadByte THEN <<EAcute>> ELSE <<Replacement>>
                ELSE <<s[i]>>]
  IN [text |-> ConcatRange(out, 1, Len(s)),
      pending |-> IF s # <<>> /\ s[Len(s)] = LeadByte THEN <<LeadByte>> ELSE <<>>]

\* Mutant of Decode: decode without {stream: true}, an incomplete sequence at the end
\* of the chunk is flushed as U+FFFD
DecodeNoStream(pending, bytes) ==
  LET r == DecodeStream(<<>>, bytes)
  IN [text |-> r.text \o (IF r.pending # <<>> THEN <<Replacement>> ELSE <<>>),
      pending |-> <<>>]

Decode(pending, bytes) == DecodeStream(pending, bytes)

\* ------------------------------------------------- downstream response (res)
\* One SSE frame written with res.write: a chat.completion.chunk (role marker,
\* delta.content, finish_reason) or the terminal marker.  The id and model of a
\* chunk are the same constants in every chunk of a stream, created is the clock.
Chunk(id, role, content, finish) ==
  [kind |-> "chunk", id |-> id, role |-> role, content |-> content, finish |-> finish]
DoneFrame == [kind |-> "done", id |-> None, role |-> FALSE, content |-> None, finish |-> None]

\* res.write(frame): a frame written after res.end() does not reach the client; it is
\* kept apart in late
ResWrite(res, frame) ==
  IF res.ends = 0 THEN [res EXCEPT !.frames = Append(@, frame)]
  ELSE [res EXCEPT !.late = Append(@, frame)]

\* res.end()
ResEnd(res) == [res EXCEPT !.ends = @ + 1]

\* A fresh response: no status set, nothing sent
NewRes ==
  [status |-> 0, contentType |-> None, headersSent |-> FALSE, json |-> None,
   frames |-> <<>>, late |-> <<>>, ends |-> 0]

\* res.setHeader("Content-Type", value)
ResSetContentType(res, value) == [res EXCEPT !.contentType = Some(value)]

\* res.flushHeaders(): the status line (200 unless set) and the headers go out
ResFlushHeaders(res) ==
  [res EXCEPT !.headersSent = TRUE, !.status = IF @ = 0 THEN 200 ELSE @]

\* res.status(code).json(body); once the headers are out it throws and sends nothing
ResStatusJson(res, code, body) ==
  IF res.headersSent THEN res
  ELSE [res EXCEPT !.status = code, !.contentType = Some("application/json"),
                   !.headersSent = TRUE, !.json = Some(body), !.ends = @ + 1]

\* ---------------------------------------------------- streamChatCompletion
\* `chatcmpl-${Date.now()}`
StreamId(time) == <<"chatcmpl-", time>>

\* The locals of one streamChatCompletion call started at the given time
NewTranscoder(time, res) ==
  [id |-> StreamId(time), pending |-> <<>>, buffer |-> <<>>, firstChunk |-> TRUE,
   closed |-> FALSE, res |-> res, thrown |-> FALSE]

\* the condition of the text-delta branch
IsTextDelta(event) ==
  /\ event.type = Some("content_block_delta")
  /\ event.delta # None
  /\ event.delta[1].type = Some("text_delta")

\* event.delta.text || ""
DeltaText(event) == IF event.delta[1].text = None THEN "" ELSE event.delta[1].text[1]

\* the stop chunk, the terminal marker, closed = true, res.end()
WriteStop(t) ==
  [t EXCEPT !.res = ResEnd(ResWrite(ResWrite(@, Chunk(t.id, FALSE, None, Some("stop"))), DoneFrame)),
            !.closed = TRUE]

\* Mutant of Dispatch: firstChunk is never cleared, so every content chunk has the role
Dispatch_RoleOnEveryChunk(t, event) ==
  IF event.kind = "null" THEN [t EXCEPT !.thrown = TRUE]
  ELSE IF IsTextDelta(event)
  THEN IF DeltaText(event) = "" THEN t
       ELSE [t EXCEPT !.res = ResWrite(@, Chunk(t.id, t.firstChunk, Some(DeltaText(event)), None))]
  ELSE IF event.type = Some("message_stop") THEN WriteStop(t)
  ELSE t

\* Mutant of Dispatch: firstChunk is cleared before the test for an empty text
Dispatch_EmptyConsumesMarker(t, event) ==
  IF event.kind = "null" THEN [t EXCEPT !.thrown = TRUE]
  ELSE IF IsTextDelta(event)
  THEN IF DeltaText(event) = "" THEN [t EXCEPT !.firstChunk = FALSE]
       ELSE [t EXCEPT !.res = ResWrite(@, Chunk(t.id, t.firstChunk, Some(DeltaText(event)), None)),
                      !.firstChunk = FALSE]
  ELSE IF event.type = Some("message_stop") THEN WriteStop(t)
  ELSE t

\* Mutant of Dispatch: a plain else in place of the else-if on message_stop
Dispatch_ElseStops(t, event) ==
  IF event.kind = "null" THEN [t EXCEPT !.thrown = TRUE]
  ELSE IF IsTextDelta(event)
  THEN IF DeltaText(event) = "" THEN t
       ELSE [t EXCEPT !.res = ResWrite(@, Chunk(t.id, t.firstChunk, Some(DeltaText(event)), None)),
                      !.firstChunk = FALSE]
  ELSE WriteStop(t)

\* The dispatch on one parsed event (the if / else if of the loop body)
Dispatch(t, event) ==
  IF event.kind = "null" THEN [t EXCEPT !.thrown = TRUE]
  ELSE IF IsTextDelta(event)
  THEN IF DeltaText(event) = "" THEN t
       ELSE [t EXCEPT !.res = ResWrite(@, Chunk(t.id, t.firstChunk, Some(DeltaText(event)), None)),
                      !.firstChunk = FALSE]
  ELSE IF event.type = Some("message_stop") THEN WriteStop(t)
  ELSE t

\* One raw event cut out of the buffer: lines, data line, payload, JSON.parse, dispatch
HandleRawEvent(t, rawEvent) ==
  LET lines == EventLines(rawEvent)
      dataLine == FindDataLine(lines)
      jsonStr == Trim(SliceFrom(dataLine[1], Len(DataPrefix)))
      parsed == JSONParse(jsonStr)
  IN IF lines = <<>> THEN t
     ELSE IF dataLine = None THEN t
     ELSE IF jsonStr = <<>> \/ jsonStr = DoneMarkerText THEN t
     ELSE IF ~parsed.ok THEN t
     ELSE Dispatch(t, parsed.value)

\* while ((idx = buffer.indexOf("\n\n")) !== -1) { ... }; an exception leaves the loop
RECURSIVE DrainBuffer(_)
DrainBuffer(t) ==
  LET idx == IndexOfBlankLine(t.buffer)
  IN IF idx = -1 \/ t.thrown THEN t
     ELSE DrainBuffer(HandleRawEvent([t EXCEPT !.buffer = SliceFrom(t.buffer, idx + 2)],
                                     SliceTo(t.buffer, idx)))

\* Mutant of AppendToBuffer: buffer = text, the partial event of the last chunk is lost
AppendToBuffer_Overwrite(buffer, text) == text

\* buffer += text
AppendToBuffer(buffer, text) == buffer \o text

\* The body of the for-await loop for one chunk of upstream bytes
OnChunk(t, chunk) ==
  LET d == Decode(t.pending, chunk)
  IN DrainBuffer([t EXCEPT !.pending = d.pending,
                            !.buffer = AppendToBuffer(t.buffer, d.text)])

\* Mutant of OnError: the catch block ends the stream as the code after the loop does
OnError_StopChunk(t) ==
  IF ~t.closed
  THEN [t EXCEPT !.res = ResEnd(ResWrite(ResWrite(@, Chunk(t.id, FALSE, None, Some("stop"))),
                                         DoneFrame))]
  ELSE t

\* Mutant of OnError: the catch block does not look at closed
OnError_Unguarded(t) ==
  [t EXCEPT !.res = ResEnd(ResWrite(ResWrite(@, Chunk(t.id, FALSE, None, Some("error"))), DoneFrame))]

\* The catch block: an error chunk and the marker unless the stream is closed
OnError(t) ==
  IF ~t.closed
  THEN [t EXCEPT !.res = ResEnd(ResWrite(ResWrite(@, Chunk(t.id, FALSE, None, Some("error"))),
                                         DoneFrame))]
  ELSE t

\* Mutant of OnEnd: nothing is done after the loop
OnEnd_Nothing(t) == t

\* After the loop: the upstream ended without message_stop
OnEnd(t) ==
  IF ~t.closed
  THEN [t EXCEPT !.res = ResEnd(ResWrite(ResWrite(@, Chunk(t.id, FALSE, None, Some("stop"))),
                                         DoneFrame))]
  ELSE t

\* ------------------------------------------------------ JavaScript values
\* A JSON scalar as the translators test it (truthiness, typeof, ===)
JNull == [k |-> "null", s |-> "", n |-> 0]
JStr(x) == [k |-> "string", s |-> x, n |-> 0]
JNum(x) == [k |-> "number", s |-> "", n |-> x]

\* !v for an optional scalar: undefined, null, "" and 0 are falsy
Falsy(v) ==
  \/ v = None
  \/ v[1].k = "null"
  \/ v[1].k = "string" /\ v[1].s = ""
  \/ v[1].k = "number" /\ v[1].n = 0

\* typeof v === "number"
IsNumber(v) == v # None /\ v[1].k = "number"

\* ------------------------------------------------------- openaiAdapter.js
\* An entry of body.tools: null, or an object with type and function
NullTool == [kind |-> "null", type |-> None, function |-> None]
Tool(type, function) == [kind |-> "object", type |-> type, function |-> function]
Function(name, parameters) == [name |-> name, parameters |-> parameters]

DefaultInputSchema == "{type:object,properties:{},additionalProperties:false}"

\* the loop body of convertTools: Some(claude tool) or None when the entry is skipped
ConvertTool(t) ==
  IF t.kind = "null" \/ t.type # Some("function") \/ t.function = None THEN None
  ELSE Some([name |-> t.function[1].name,
             input_schema |-> IF t.function[1].parameters = None
                              THEN DefaultInputSchema
                              ELSE t.function[1].parameters[1]])

RECURSIVE ConvertToolList(_)
ConvertToolList(ts) ==
  IF ts = <<>> THEN <<>> ELSE ConvertTool(Head(ts)) \o ConvertToolList(Tail(ts))

\* convertTools(oaiTools): None is undefined
convertTools(oaiTools) ==
  IF oaiTools = None \/ oaiTools[1] = <<>> THEN None
  ELSE LET result == ConvertToolList(oaiTools[1])
       IN IF result # <<>> THEN Some(result) ELSE None

\* body.tool_choice: a string, or an object with type and function.name
ChoiceString(x) == [kind |-> "string", str |-> x, type |-> None, name |-> None]
ChoiceObject(type, name) == [kind |-> "object", str |-> "", type |-> type, name |-> name]

\* convertToolChoice(toolChoice)
convertToolChoice(toolChoice) ==
  IF toolChoice = None THEN None
  ELSE LET c == toolChoice[1]
       IN IF c.kind = "string"
          THEN IF c.str = "" THEN None
               ELSE IF c.str = "auto" THEN Some([type |-> "auto", name |-> None])
               ELSE IF c.str = "none" THEN None
               ELSE None
          ELSE IF c.type = Some("function") /\ c.name # None /\ c.name[1] # ""
          THEN Some([type |-> "tool", name |-> c.name])
          ELSE None

\* msg.content: null, a string, a list of typed parts, or one part-like object.  A part
\* is null or an object with an optional type and an optional text.
NullPart == [kind |-> "null", type |-> None, text |-> None]
Part(type, text) == [kind |-> "object", type |-> type, text |-> text]
ContentNull == [kind |-> "null", str |-> <<>>, parts |-> <<>>]
ContentString(str) == [kind |-> "string", str |-> str, parts |-> <<>>]
ContentParts(parts) == [kind |-> "array", str |-> <<>>, parts |-> parts]
ContentObject(type, text) == [kind |-> "object", str |-> <<>>, parts |-> <<Part(type, text)>>]

\* A parsed JSON value of a tool call: its kind and its tokens (the characters of a
\* string, the canonical token list of any other value)
JsonValue(kind, tokens) == [kind |-> kind, tokens |-> tokens]
Quote == "\""
EmptyObject == JsonValue("object", <<"{", "}">>)

\* The JSON texts without blanks that JSON.parse accepts here, each with its kind
CanonicalJson ==
  { <<"object", <<"{", "}">>>>,
    <<"object", <<"{", "\"a\"", ":", "1", "}">>>>,
    <<"object", <<"{", "\"a\"", ":", "1", ",", "\"b\"", ":", "null", "}">>>>,
    <<"array", <<"[", "1", "]">>>>,
    <<"number", <<"7">>>>,
    <<"null", <<"null">>>> }

\* a string literal: an opening and a closing quote and no quote in between
IsStringLiteral(text) ==
  /\ Len(text) >= 2
  /\ text[1] = Quote
  /\ text[Len(text)] = Quote
  /\ \A i \in 2..(Len(text) - 1) : text[i] # Quote

\* JSON.parse(text) for the arguments of a tool call: blanks between tokens are not
\* part of the value; anything that is not a JSON text is a SyntaxError (ok = FALSE)
ParseArguments(text) ==
  LET trimmed == Trim(text)
      tokens == SelectSeq(text, LAMBDA u : ~IsSpace(u))
  IN IF IsStringLiteral(trimmed)
     THEN [ok |-> TRUE, value |-> JsonValue("string", SubSeq(trimmed, 2, Len(trimmed) - 1))]
     ELSE IF \E c \in CanonicalJson : c[2] = tokens
     THEN [ok |-> TRUE,
           value |-> JsonValue((CHOOSE c \in CanonicalJson : c[2] = tokens)[1], tokens)]
     ELSE [ok |-> FALSE, value |-> JsonValue("null", <<"null">>)]

\* JSON.stringify(value): a string is quoted, any other value is its canonical text
JSONStringify(value) ==
  IF value.kind = "string" THEN <<Quote>> \o value.tokens \o <<Quote>> ELSE value.tokens

\* tc.function.arguments: a string or an already parsed value
ArgumentsString(text) == [kind |-> "string", text |-> text, value |-> JsonValue("null", <<"null">>)]
ArgumentsValue(value) == [kind |-> "value", text |-> <<>>, value |-> value]

\* An entry of msg.tool_calls: null, or an object with id, type and function
NullCall == [kind |-> "null", id |-> None, type |-> None, function |-> None]
ToolCall(id, type, function) == [kind |-> "object", id |-> id, type |-> type, function |-> function]
CallFunction(name, arguments) == [name |-> name, arguments |-> arguments]

\* A message of body.messages; tool_calls is None unless it is an array
Message(role, content, tool_call_id, name) ==
  [role |-> role, content |-> content, tool_call_id |-> tool_call_id, name |-> name,
   tool_calls |-> None]
AssistantCalls(content, tool_calls) ==
  [role |-> "assistant", content |-> content, tool_call_id |-> None, name |-> None,
   tool_calls |-> Some(tool_calls)]

\* msg.tool_call_id || msg.name || "tool_use"
ToolUseId(msg) ==
  IF msg.tool_call_id # None /\ msg.tool_call_id[1] # "" THEN msg.tool_call_id[1]
  ELSE IF msg.name # None /\ msg.name[1] # "" THEN msg.name[1]
  ELSE "tool_use"

\* the text one part of a content list contributes
PartText(part) ==
  IF part.kind = "null" THEN <<>>
  ELSE IF part.type = Some("text") /\ part.text # None THEN part.text[1]
  ELSE <<>>

\* extractTextFromContent(content)
extractTextFromContent(content) ==
  IF content = None \/ content[1].kind = "null" THEN <<>>
  ELSE LET c == content[1]
       IN IF c.kind = "string" THEN c.str
          ELSE IF c.kind = "array"
          THEN ConcatRange([i \in 1..Len(c.parts) |-> PartText(c.parts[i])], 1, Len(c.parts))
          ELSE IF c.parts[1].type = Some("text") /\ c.parts[1].text # None THEN c.parts[1].text[1]
          ELSE <<>>

\* text.trim().length > 0
HasVisibleText(text) == Trim(text) # <<>>

\* Content blocks of an upstream message: text, tool_result, tool_use.  id and name are
\* None when undefined; input is None when undefined.
TextBlock(text) ==
  [type |-> "text", text |-> text, tool_use_id |-> None, id |-> None, name |-> None,
   input |-> None]
ToolResultBlock(id, text) ==
  [type |-> "tool_result", text |-> text, tool_use_id |-> Some(id), id |-> None,
   name |-> None, input |-> None]
ToolUseBlock(id, name, input) ==
  [type |-> "tool_use", text |-> <<>>, tool_use_id |-> None, id |-> id, name |-> name,
   input |-> Some(input)]

\* Mutant of InputObj: string arguments are passed on without JSON.parse
InputObj_RawString(arguments) ==
  IF arguments = None THEN EmptyObject
  ELSE LET args == arguments[1]
       IN IF args.kind = "string" THEN JsonValue("string", args.text)
          ELSE IF args.value.kind \in {"object", "array"} THEN args.value
          ELSE EmptyObject

\* inputObj for one tool call: the parsed arguments, the raw string when parsing fails,
\* the value itself when it is an object, {} otherwise
InputObj(arguments) ==
  IF arguments = None THEN EmptyObject
  ELSE LET args == arguments[1]
       IN IF args.kind = "string"
          THEN IF ParseArguments(args.text).ok THEN ParseArguments(args.text).value
               ELSE JsonValue("string", args.text)
          ELSE IF args.value.kind \in {"object", "array"} THEN args.value
          ELSE EmptyObject

\* tc.id || tc.function.name
ToolUseBlockId(tc) ==
  IF tc.id # None /\ tc.id[1] # "" THEN tc.id ELSE tc.function[1].name

\* the tool_use blocks of msg.tool_calls: entries that are not function calls are skipped
RECURSIVE ToolUseBlocks(_)
ToolUseBlocks(tcs) ==
  IF tcs = <<>> THEN <<>>
  ELSE LET tc == Head(tcs)
       IN (IF tc.kind = "null" \/ tc.type # Some("function") \/ tc.function = None THEN <<>>
           ELSE <<ToolUseBlock(ToolUseBlockId(tc), tc.function[1].name,
                               InputObj(tc.function[1].arguments))>>)
            \o ToolUseBlocks(Tail(tcs))

\* contentBlocks of a user / assistant message
ContentBlocks(msg) ==
  LET text == extractTextFromContent(msg.content)
  IN (IF msg.role = "assistant" /\ msg.tool_calls # None
      THEN ToolUseBlocks(msg.tool_calls[1]) ELSE <<>>)
       \o (IF HasVisibleText(text) THEN <<TextBlock(text)>> ELSE <<>>)

\* Mutant of ConvertMessage: an empty content list is left empty
ConvertMessage_NoNormalise(msg) ==
  LET text == extractTextFromContent(msg.content)
  IN IF msg.role = "tool"
     THEN [role |-> "user", content |-> <<ToolResultBlock(ToolUseId(msg), text)>>]
     ELSE [role |-> IF msg.role = "assistant" THEN "assistant" ELSE "user",
           content |-> ContentBlocks(msg)]

\* The upstream message one non-system inbound message becomes
ConvertMessage(msg) ==
  LET text == extractTextFromContent(msg.content)
  IN IF msg.role = "tool"
     THEN [role |-> "user", content |-> <<ToolResultBlock(ToolUseId(msg), text)>>]
     ELSE [role |-> IF msg.role = "assistant" THEN "assistant" ELSE "user",
           content |-> IF ContentBlocks(msg) # <<>> THEN ContentBlocks(msg)
                       ELSE <<TextBlock(<<>>)>>]

RECURSIVE ConvertMessages(_)
ConvertMessages(msgs) ==
  IF msgs = <<>> THEN <<>>
  ELSE IF Head(msgs).role = "system" THEN ConvertMessages(Tail(msgs))
  ELSE <<ConvertMessage(Head(msgs))>> \o ConvertMessages(Tail(msgs))

\* the non-empty extracted texts of the system messages, in order
RECURSIVE SystemPieces(_)
SystemPieces(msgs) ==
  IF msgs = <<>> THEN <<>>
  ELSE LET text == extractTextFromContent(Head(msgs).content)
       IN (IF Head(msgs).role = "system" /\ text # <<>> THEN <<text>> ELSE <<>>)
            \o SystemPieces(Tail(msgs))

\* Mutant of JoinBlankLine: the separator is one newline
RECURSIVE JoinBlankLine_SingleNewline(_)
JoinBlankLine_SingleNewline(pieces) ==
  IF Len(pieces) = 1 THEN Head(pieces)
  ELSE Head(pieces) \o <<NL>> \o JoinBlankLine_SingleNewline(Tail(pieces))

\* systemPieces.join("\n\n")
RECURSIVE JoinBlankLine(_)
JoinBlankLine(pieces) ==
  IF Len(pieces) = 1 THEN Head(pieces)
  ELSE Head(pieces) \o <<NL, NL>> \o JoinBlankLine(Tail(pieces))

\* mapOpenAIRequestToClaude(body): system, messages, tools, tool_choice
mapOpenAIRequestToClaude(body) ==
  LET systemPieces == SystemPieces(body.messages)
  IN [system |-> IF systemPieces # <<>> THEN Some(JoinBlankLine(systemPieces)) ELSE None,
      messages |-> ConvertMessages(body.messages),
      tools |-> convertTools(body.tools),
      tool_choice |-> convertToolChoice(body.tool_choice)]

\* Mutant of mapStopReason: the max_tokens case is missing
mapStopReason_NoLength(stopReason) ==
  IF Falsy(stopReason) THEN None
  ELSE IF stopReason[1] = JStr("tool_use") THEN Some("tool_calls")
  ELSE Some("stop")

\* mapStopReason(stopReason): None is null
mapStopReason(stopReason) ==
  IF Falsy(stopReason) THEN None
  ELSE IF stopReason[1] = JStr("end_turn") THEN Some("stop")
  ELSE IF stopReason[1] = JStr("max_tokens") THEN Some("length")
  ELSE IF stopReason[1] = JStr("stop_sequence") THEN Some("stop")
  ELSE IF stopReason[1] = JStr("tool_use") THEN Some("tool_calls")
  ELSE Some("stop")

\* message.usage: input_tokens and output_tokens, each optional
Usage(input, output) == [input_tokens |-> input, output_tokens |-> output]
EmptyUsage == Usage(None, None)

\* Mutant of MapUsage: usage only when both counts are numbers
MapUsage_BothRequired(messageUsage) ==
  LET usage == IF messageUsage = None THEN [input_tokens |-> None, output_tokens |-> None]
               ELSE messageUsage[1]
  IN IF IsNumber(usage.input_tokens) /\ IsNumber(usage.output_tokens)
     THEN Some([prompt_tokens |-> Some(usage.input_tokens[1].n),
                completion_tokens |-> Some(usage.output_tokens[1].n),
                total_tokens |-> Some(usage.input_tokens[1].n + usage.output_tokens[1].n)])
     ELSE None

\* the usage property of the response: None is undefined (left out of the JSON),
\* a count of None inside it is null
MapUsage(messageUsage) ==
  LET usage == IF messageUsage = None THEN EmptyUsage ELSE messageUsage[1]
      promptTokens == IF IsNumber(usage.input_tokens) THEN Some(usage.input_tokens[1].n) ELSE None
      completionTokens ==
        IF IsNumber(usage.output_tokens) THEN Some(usage.output_tokens[1].n) ELSE None
      totalTokens == IF promptTokens # None /\ completionTokens # None
                     THEN Some(promptTokens[1] + completionTokens[1]) ELSE None
  IN IF promptTokens # None \/ completionTokens # None
     THEN Some([prompt_tokens |-> promptTokens, completion_tokens |-> completionTokens,
                total_tokens |-> totalTokens])
     ELSE None

\* textParts.join("") over the text blocks of message.content
RECURSIVE CombinedText(_)
CombinedText(blocks) ==
  IF blocks = <<>> THEN <<>>
  ELSE (IF Head(blocks).type = "text" THEN Head(blocks).text ELSE <<>>)
         \o CombinedText(Tail(blocks))

\* block.id || `call_${toolCalls.length}`
CallIds == <<"call_0", "call_1", "call_2", "call_3">>
ResponseCallId(block, n) ==
  IF block.id # None /\ block.id[1] # "" THEN block.id[1]
  ELSE IF n < Len(CallIds) THEN CallIds[n + 1] ELSE "call_n"

\* block.input ?? {}
InputOrEmpty(input) == IF input = None \/ input[1].kind = "null" THEN EmptyObject ELSE input[1]

\* toolCalls: one invocation record for every tool_use block of message.content
RECURSIVE ResponseToolCalls(_, _)
ResponseToolCalls(blocks, n) ==
  IF blocks = <<>> THEN <<>>
  ELSE IF Head(blocks).type = "tool_use"
  THEN <<[id |-> ResponseCallId(Head(blocks), n), type |-> "function",
          function |-> [name |-> Head(blocks).name,
                        arguments |-> JSONStringify(InputOrEmpty(Head(blocks).input))]]>>
         \o ResponseToolCalls(Tail(blocks), n + 1)
  ELSE ResponseToolCalls(Tail(blocks), n)

\* An upstream response message
ClaudeMessage(content, stop_reason, usage) ==
  [content |-> content, stop_reason |-> stop_reason, usage |-> usage]

\* mapClaudeResponseToOpenAI(message, model)
mapClaudeResponseToOpenAI(message, model) ==
  [kind |-> "chat.completion", model |-> model,
   content |-> CombinedText(message.content),
   tool_calls |-> IF ResponseToolCalls(message.content, 0) # <<>>
                  THEN Some(ResponseToolCalls(message.content, 0)) ELSE None,
   finish_reason |-> mapStopReason(message.stop_reason),
   usage |-> MapUsage(message.usage),
   errorType |-> ""]

\* The error envelope {error: {message, type}}
ErrorBody(type) ==
  [kind |-> "error", model |-> "", content |-> <<>>, tool_calls |-> None,
   finish_reason |-> None, usage |-> None, errorType |-> type]

\* --------------------------------------------------------- vertexClient.js
\* 60_000 ms and 30 * 60_000 ms, in minutes
SafetyMargin == 1
TokenTtl == 30

\* Mutant of CacheFresh: the expiry is not looked at
CacheFresh_NoExpiryTest(cachedToken, cachedTokenExpire, now) == cachedToken # None

\* getAccessToken(): the test that returns the cached token
CacheFresh(cachedToken, cachedTokenExpire, now) ==
  cachedToken # None /\ now < cachedTokenExpire - SafetyMargin

\* The body callClaudeMessages posts: a field that is None is not in the body
RequestBody(options, stream) ==
  [messages |-> options.messages,
   stream |-> stream,
   system |-> IF options.system # None /\ options.system[1] # <<>> THEN options.system ELSE None,
   tools |-> IF options.tools # None /\ options.tools[1] # <<>> THEN options.tools ELSE None,
   tool_choice |-> options.tool_choice]

\* ----------------------------------------------------------- the upstream
\* The wire bytes of the SSE events the upstream of this model sends
DataEvent(payload) == DataPrefix \o <<SP>> \o payload \o <<NL, NL>>
EventBytes(e) ==
  CASE e = "text_Hel" -> DataEvent(TextDeltaJson(<<"\"Hel\"">>))
    [] e = "text_lo" -> DataEvent(TextDeltaJson(<<"\"lo\"">>))
    [] e = "text_e" -> DataEvent(TextDeltaJson(<<"\"", LeadByte, ContByte, "\"">>))
    [] e = "text_empty" -> DataEvent(TextDeltaJson(<<"\"\"">>))
    [] e = "no_text" -> DataEvent(NoTextDeltaJson)
    [] e = "input_json" -> DataEvent(InputJsonDeltaJson)
    [] e = "ping" -> <<"event", ":", SP, "ping", NL>> \o DataEvent(PingJson)
    [] e = "stop" -> <<"event", ":", SP, "message_stop", NL>> \o DataEvent(MessageStopJson)
    [] e = "null" -> DataEvent(<<"null">>)
    [] e = "number" -> DataEvent(<<"42">>)
    [] e = "string" -> DataEvent(<<"\"x\"">>)
    [] e = "bad_json" -> DataEvent(<<"{\"type\":">>)
    [] e = "done_marker" -> DataEvent(DoneMarkerText)
    [] e = "empty_data" -> <<"d", "a", "t", "a", ":", NL, NL>>
    [] e = "comment" -> <<":", SP, "keep-alive", NL, NL>>
    [] e = "blank" -> <<NL, NL>>

CoreVocab == {"text_Hel", "text_lo", "input_json", "stop", "null"}
SplitVocab == {"text_Hel", "text_e", "stop", "null", "comment", "blank"}
IgnoredVocab == {"text_Hel", "text_lo", "input_json", "ping", "stop"}
SmallVocab == {"text_Hel", "stop"}
RoleVocab == {"text_Hel", "text_lo", "text_empty", "no_text", "stop"}
LiveVocab == {"text_Hel", "bad_json", "null", "stop"}

\* What the token provider, the fetch and the upstream answer can be
TokenOutcomes == {"token", "no_token", "rejected"}
UpstreamStatuses == {200, 429, 503}
FetchOutcomes == {"network_error", "status"}

StopReasons ==
  {None, Some(JNull), Some(JStr("")), Some(JStr("end_turn")), Some(JStr("max_tokens")),
   Some(JStr("stop_sequence")), Some(JStr("tool_use")), Some(JStr("refusal")),
   Some(JNum(7))}
TokenCounts == {None, Some(JNull), Some(JNum(0)), Some(JNum(3)), Some(JStr("3"))}
Usages == {None} \cup {Some(Usage(i, o)) : i \in TokenCounts, o \in {None, Some(JNum(4))}}
                 \cup {Some(Usage(Some(JNum(3)), o)) : o \in TokenCounts}
HelloContent == <<TextBlock(<<"Hel">>), TextBlock(<<"lo">>)>>
Responses ==
  {ClaudeMessage(HelloContent, s, Some(Usage(Some(JNum(3)), Some(JNum(4))))) : s \in StopReasons}
    \cup {ClaudeMessage(HelloContent, Some(JStr("end_turn")), u) : u \in Usages}

\* ------------------------------------------------------------ the requests
AllowedModels == {"claude-a"}
Models == {None, Some(""), Some("claude-a"), Some("gpt-4")}
DefaultModels == {"claude-a", "claude-b"}
Streams == {None, Some(TRUE), Some(FALSE)}
FunctionTool == Tool(Some("function"), Some(Function("f", None)))
RetrievalTool == Tool(Some("retrieval"), None)
ToolLists ==
  {None, Some(<<>>), Some(<<RetrievalTool>>), Some(<<NullTool>>), Some(<<FunctionTool>>),
   Some(<<RetrievalTool, FunctionTool>>)}
ToolChoices ==
  {None, Some(ChoiceString("auto")), Some(ChoiceString("none")),
   Some(ChoiceString("required")), Some(ChoiceObject(Some("function"), Some("f")))}
HiMessages ==
  <<Message("system", Some(ContentString(<<"You are X">>)), None, None),
    Message("user", Some(ContentString(<<"Hi">>)), None, None)>>

Body(model, stream, tools, tool_choice, messages) ==
  [model |-> model, stream |-> stream, tools |-> tools, tool_choice |-> tool_choice,
   messages |-> messages]

AllRequests ==
  {Body(m, s, ts, tc, HiMessages) : m \in Models, s \in Streams, ts \in ToolLists,
                                    tc \in ToolChoices}
StreamRequest == Body(Some("claude-a"), Some(TRUE), None, None, HiMessages)

\* all lists of at most n messages of a pool
RECURSIVE ListsUpTo(_, _)
ListsUpTo(pool, n) ==
  IF n = 0 THEN {<<>>}
  ELSE LET shorter == ListsUpTo(pool, n - 1)
       IN shorter \cup {Append(l, m) : l \in {x \in shorter : Len(x) = n - 1}, m \in pool}

\* text-only conversations: system, user and assistant turns with string content
StringMessage(role, str) == Message(role, Some(ContentString(str)), None, None)
TextPool ==
  { StringMessage("system", <<"You are X">>), StringMessage("system", <<"Be brief">>),
    StringMessage("system", <<>>),
    StringMessage("user", <<"Hi">>), StringMessage("user", <<SP>>),
    StringMessage("user", <<"Hi", SP>>),
    StringMessage("assistant", <<"Yo">>), StringMessage("assistant", <<>>) }
TextRequests ==
  {Body(Some("claude-a"), None, None, None, l) : l \in ListsUpTo(TextPool, MaxTurns)}

\* conversations with tool calls, tool results and the other shapes of content
ArgsA == <<"{", "\"a\"", ":", "1", "}">>
ArgsASpaced == <<"{", SP, "\"a\"", ":", SP, "1", SP, "}">>
FunctionCall(id, name, text) ==
  ToolCall(id, Some("function"), Some(CallFunction(Some(name), Some(ArgumentsString(text)))))
CallPool ==
  { AssistantCalls(None, <<FunctionCall(Some("c1"), "f", ArgsA)>>),
    AssistantCalls(Some(ContentString(<<"Yo">>)),
                   <<FunctionCall(None, "f", ArgsASpaced), FunctionCall(Some("c2"), "g", <<"{", "}">>)>>),
    AssistantCalls(None, <<FunctionCall(Some("c3"), "g", <<"null">>)>>),
    AssistantCalls(None, <<FunctionCall(Some("c4"), "f", <<"7">>),
                           FunctionCall(Some("c5"), "f", <<Quote, "s", SP, Quote>>)>>),
    AssistantCalls(None, <<NullCall, ToolCall(Some("c6"), Some("retrieval"), None),
                           ToolCall(Some("c7"), Some("function"), None)>>),
    AssistantCalls(None,
      <<ToolCall(Some("c8"), Some("function"), Some(CallFunction(Some("f"), None))),
        FunctionCall(Some("c9"), "f", <<"{">>),
        ToolCall(None, Some("function"),
                 Some(CallFunction(Some("g"), Some(ArgumentsValue(JsonValue("object", ArgsA)))))),
        ToolCall(Some("c10"), Some("function"),
                 Some(CallFunction(Some("g"), Some(ArgumentsValue(JsonValue("number", <<"7">>))))))>>),
    Message("tool", Some(ContentString(<<"42">>)), Some("c1"), None),
    Message("tool", None, None, Some("f")),
    Message("tool", Some(ContentString(<<"r">>)), None, None),
    Message("user", Some(ContentParts(<<Part(Some("text"), Some(<<"A">>)), NullPart,
                                        Part(Some("image_url"), None),
                                        Part(Some("text"), Some(<<"B">>))>>)), None, None),
    Message("user", None, None, None),
    Message("user", Some(ContentObject(Some("text"), Some(<<"O">>))), None, None),
    Message("user", Some(ContentNull), None, None),
    StringMessage("system", <<"S">>),
    StringMessage("developer", <<"D">>) }
CallRequests ==
  {Body(Some("claude-a"), None, None, None, l) : l \in ListsUpTo(CallPool, MaxCallTurns)}

\* ------------------------------------------------------------------ state
VARIABLES
  defaultModel,       \* config.defaultModel
  req,                \* req.body of the request being served
  vocab,              \* the events the upstream can send
  maxEv,              \* how many events the upstream sends at most
  pc,                 \* where the handler is: start, awaitToken, awaitFetch, reading, done
  res,                \* the response object
  pending,            \* the TextDecoder's incomplete sequence
  buffer,             \* streamChatCompletion: buffer
  firstChunk,         \* streamChatCompletion: firstChunk
  closed,             \* streamChatCompletion: closed
  id,                 \* streamChatCompletion: id, None before the call
  streaming,          \* streamChatCompletion was invoked
  cachedToken,        \* vertexClient.js: cachedToken
  cachedTokenExpire,  \* vertexClient.js: cachedTokenExpire
  now,                \* Date.now(), in minutes
  tokenFetches,       \* how often the token provider was asked
  upstreamCalls,      \* the bodies posted to the upstream, in order
  upstreamStatus,     \* the status the upstream answered with, 0 before it did
  upstreamJson,       \* the message the upstream answered with (non-streaming)
  wire,               \* bytes of the upstream body not yet read
  sent,               \* the events the upstream has sent
  replies,            \* the messages the upstream can answer a non-streaming call with
  failure,            \* the error thrown into the handler: none, token, fetch, read, event
  callers,            \* concurrent getAccessToken calls: where each is, and its local now
  issuedAt,           \* the token provider's log: the time each token was issued
  lastReturn          \* what the last getAccessToken call to return gave back

vars ==
  <<defaultModel, req, vocab, maxEv, pc, res, pending, buffer, firstChunk, closed, id, streaming,
    cachedToken, cachedTokenExpire, now, tokenFetches, upstreamCalls, upstreamStatus,
    upstreamJson, wire, sent, replies, failure, callers, issuedAt, lastReturn>>

\* One caller of getAccessToken: not in a call (idle) or suspended at one of the two
\* awaits; start is the local now of the call it is in
Caller(at, start) == [pc |-> at, start |-> start]
Callers == 1..NumCallers

\* A return of getAccessToken: the token, the call's local now, and whether the token
\* came from the cache
Return(token, start, cached) == [token |-> token, start |-> start, cached |-> cached]

\* the locals of streamChatCompletion as one record, and back
Transcoder ==
  [id |-> id, pending |-> pending, buffer |-> buffer, firstChunk |-> firstChunk,
   closed |-> closed, res |-> res, thrown |-> FALSE]
SetTranscoder(t) ==
  /\ id' = t.id
  /\ pending' = t.pending
  /\ buffer' = t.buffer
  /\ firstChunk' = t.firstChunk
  /\ closed' = t.closed
  /\ res' = t.res

\* const stream = !!body.stream
WantsStream(body) == body.stream = Some(TRUE)
\* Mutant of EffectiveModel: body.model is not looked at
EffectiveModel_DefaultOnly(body, default) == default

\* const model = body.model || config.defaultModel
EffectiveModel(body, default) ==
  IF body.model # None /\ body.model[1] # "" THEN body.model[1] ELSE default
\* Mutant of HasTools: the test looks at tool_choice in place of tools
HasTools_ChoiceOnly(claudeReq) == claudeReq.tool_choice # None

\* Array.isArray(claudeReq.tools) && claudeReq.tools.length
HasTools(claudeReq) == claudeReq.tools # None /\ claudeReq.tools[1] # <<>>

InitFull(requests, defaults, events, n, answers) ==
  /\ defaultModel \in defaults
  /\ req \in requests
  /\ vocab = events
  /\ maxEv = n
  /\ pc = "start"
  /\ res = NewRes
  /\ pending = <<>> /\ buffer = <<>> /\ firstChunk = TRUE /\ closed = FALSE
  /\ id = None
  /\ streaming = FALSE
  /\ now = TokenTtl
  /\ \E c \in {<<None, 0>>, <<Some(0), now + TokenTtl>>, <<Some(0), now + SafetyMargin>>} :
       cachedToken = c[1] /\ cachedTokenExpire = c[2]
  /\ tokenFetches = 0
  /\ upstreamCalls = <<>>
  /\ upstreamStatus = 0
  /\ upstreamJson = None
  /\ wire = <<>> /\ sent = <<>>
  /\ replies = answers
  /\ failure = "none"
  /\ callers = [c \in Callers |-> Caller("idle", 0)]
  /\ issuedAt = <<>>
  /\ lastReturn = None

InitWith(requests, defaults, events, n) == InitFull(requests, defaults, events, n, Responses)

Init == InitWith({StreamRequest}, {"claude-a"}, CoreVocab, MaxEvents)
InitSplit == InitWith({StreamRequest}, {"claude-a"}, SplitVocab, MaxEvents)
InitIgnored == InitWith({StreamRequest}, {"claude-a"}, IgnoredVocab, MaxEvents)
InitRole == InitWith({StreamRequest}, {"claude-a"}, RoleVocab, MaxEvents)
InitLive == InitWith({StreamRequest}, {"claude-a"}, LiveVocab, MaxEvents)
InitHandler == InitWith(AllRequests, DefaultModels, SmallVocab, HandlerMaxEvents)
PlainReply == ClaudeMessage(HelloContent, Some(JStr("end_turn")), None)
InitText == InitFull(TextRequests \cup {StreamRequest}, {"claude-a"}, SmallVocab, HandlerMaxEvents, {PlainReply})
InitCalls == InitFull(CallRequests \cup {StreamRequest}, {"claude-a"}, SmallVocab, HandlerMaxEvents, {PlainReply})

\* ---------------------------------------------------------------- actions
streamVars == <<id, pending, buffer, firstChunk, closed>>
tokenVars == <<cachedToken, cachedTokenExpire, now>>
upstreamVars == <<wire, sent>>
fixedVars == <<defaultModel, req, vocab, maxEv, replies, callers, issuedAt, lastReturn>>

\* An upstream that answers with the content of an assistant message it was sent
Echoes ==
  IF upstreamCalls = <<>> THEN {}
  ELSE LET sentMessages == upstreamCalls[1].messages
       IN {ClaudeMessage(sentMessages[j].content, Some(JStr("tool_use")), None) :
             j \in {k \in 1..Len(sentMessages) : sentMessages[k].role = "assistant"}}

\* callClaudeMessages up to its first await that leaves the process: the cached token
\* is used and the request is posted, or the token provider is asked
StartCall(claudeReq, stream) ==
  IF CacheFresh(cachedToken, cachedTokenExpire, now)
  THEN /\ upstreamCalls' = Append(upstreamCalls, RequestBody(claudeReq, stream))
       /\ pc' = "awaitFetch"
       /\ UNCHANGED tokenFetches
  ELSE /\ tokenFetches' = tokenFetches + 1
       /\ pc' = "awaitToken"
       /\ UNCHANGED upstreamCalls

\* The headers streamChatCompletion sets and flushes before it calls the upstream
StreamHeaders(r) == ResFlushHeaders(ResSetContentType(r, "text/event-stream"))

\* app.post("/v1/chat/completions"): validation, translation, and the call
PostChatCompletions ==
  /\ pc = "start"
  /\ LET model == EffectiveModel(req, defaultModel)
         claudeReq == mapOpenAIRequestToClaude(req)
     IN IF model \notin AllowedModels
        THEN /\ res' = ResStatusJson(res, 400, ErrorBody("invalid_request_error"))
             /\ pc' = "done"
             /\ UNCHANGED <<streaming, tokenFetches, upstreamCalls>>
        ELSE IF WantsStream(req) /\ HasTools(claudeReq)
        THEN /\ res' = ResStatusJson(ResSetContentType(res, "application/json"), 400,
                                     ErrorBody("invalid_request_error"))
             /\ pc' = "done"
             /\ UNCHANGED <<streaming, tokenFetches, upstreamCalls>>
        ELSE /\ streaming' = WantsStream(req)
             /\ res' = IF WantsStream(req) THEN StreamHeaders(res) ELSE res
             /\ StartCall(claudeReq, WantsStream(req))
  /\ id' = IF EffectiveModel(req, defaultModel) \in AllowedModels /\ WantsStream(req)
              /\ ~HasTools(mapOpenAIRequestToClaude(req))
           THEN NewTranscoder(now, res).id ELSE id
  /\ UNCHANGED <<fixedVars, pending, buffer, firstChunk, closed, tokenVars, upstreamVars,
                 upstreamStatus, upstreamJson, failure>>

\* Mutant of ErrorStatus: err.status is not used
ErrorStatus_Always500(status) == 500

\* err.status || 500
ErrorStatus(status) == IF status # 0 THEN status ELSE 500

\* An error thrown inside the try blocks: the catch of streamChatCompletion when
\* streaming, the catch of the handler otherwise (err.status || 500)
Throw(kind, status) ==
  /\ failure' = kind
  /\ pc' = "done"
  /\ IF streaming
     THEN SetTranscoder(OnError(Transcoder))
     ELSE /\ res' = ResStatusJson(res, ErrorStatus(status), ErrorBody("internal_error"))
          /\ UNCHANGED streamVars

\* getAccessToken after its awaits: the token is cached and the request is posted, or
\* the provider gave no token or failed
TokenResolved(outcome) ==
  /\ pc = "awaitToken"
  /\ IF outcome = "token"
     THEN /\ cachedToken' = Some(tokenFetches)
          /\ cachedTokenExpire' = now + TokenTtl
          /\ upstreamCalls' =
               Append(upstreamCalls, RequestBody(mapOpenAIRequestToClaude(req), streaming))
          /\ pc' = "awaitFetch"
          /\ UNCHANGED <<res, streamVars, failure>>
     ELSE /\ Throw("token", 0)
          /\ UNCHANGED <<cachedToken, cachedTokenExpire, upstreamCalls>>
  /\ UNCHANGED <<fixedVars, streaming, now, tokenFetches, upstreamVars, upstreamStatus,
                 upstreamJson>>

\* fetch resolved: a network error, a non-success status (thrown with err.status), the
\* upstream response for streaming, or the JSON message answered with res.json
FetchResolved(outcome, status, message) ==
  /\ pc = "awaitFetch"
  /\ IF outcome = "network_error"
     THEN /\ Throw("fetch", 0)
          /\ UNCHANGED <<upstreamStatus, upstreamJson>>
     ELSE /\ upstreamStatus' = status
          /\ IF status < 200 \/ status > 299
             THEN /\ Throw("status", status)
                  /\ UNCHANGED upstreamJson
             ELSE IF streaming
             THEN /\ pc' = "reading"
                  /\ UNCHANGED <<res, streamVars, upstreamJson, failure>>
             ELSE /\ upstreamJson' = Some(message)
                  /\ res' = ResStatusJson(res, 200,
                              mapClaudeResponseToOpenAI(message,
                                                        EffectiveModel(req, defaultModel)))
                  /\ pc' = "done"
                  /\ UNCHANGED <<streamVars, failure>>
  /\ UNCHANGED <<fixedVars, streaming, tokenVars, tokenFetches, upstreamCalls, upstreamVars>>

\* The upstream writes one more event into its body
UpstreamSend(e) ==
  /\ pc = "reading"
  /\ Len(sent) < maxEv
  /\ sent' = Append(sent, e)
  /\ wire' = wire \o EventBytes(e)
  /\ UNCHANGED <<fixedVars, pc, res, streamVars, streaming, tokenVars, tokenFetches,
                 upstreamCalls, upstreamStatus, upstreamJson, failure>>

\* One iteration of for await (const chunk of upstreamRes.body): the next k bytes
ReadChunk(k) ==
  /\ pc = "reading"
  /\ k \in 1..Len(wire)
  /\ LET t == OnChunk(Transcoder, SubSeq(wire, 1, k))
     IN /\ wire' = SubSeq(wire, k + 1, Len(wire))
        /\ IF t.thrown
           THEN /\ SetTranscoder(OnError(t))
                /\ failure' = "event"
                /\ pc' = "done"
           ELSE /\ SetTranscoder(t)
                /\ UNCHANGED <<failure, pc>>
  /\ UNCHANGED <<fixedVars, streaming, tokenVars, tokenFetches, upstreamCalls,
                 upstreamStatus, upstreamJson, sent>>

\* The upstream ends its body and the loop ends with it: the code after the try
ReadDone ==
  /\ pc = "reading"
  /\ wire = <<>>
  /\ SetTranscoder(OnEnd(Transcoder))
  /\ pc' = "done"
  /\ UNCHANGED <<fixedVars, streaming, tokenVars, tokenFetches, upstreamCalls,
                 upstreamStatus, upstreamJson, upstreamVars, failure>>

\* Reading the upstream body raises an error
ReadError ==
  /\ pc = "reading"
  /\ Throw("read", 0)
  /\ UNCHANGED <<fixedVars, streaming, tokenVars, tokenFetches, upstreamCalls,
                 upstreamStatus, upstreamJson, upstreamVars>>

ChunkSizes == 1..MaxChunk

\* ------------------------------------------- concurrent getAccessToken calls
\* the variables of the request handler, which these calls do not touch
handlerVars ==
  <<defaultModel, req, vocab, maxEv, replies, pc, res, streamVars, streaming, upstreamCalls,
    upstreamStatus, upstreamJson, upstreamVars, failure>>

\* the module starts with cachedToken = null and cachedTokenExpire = 0
InitToken ==
  /\ InitFull({StreamRequest}, {"claude-a"}, SmallVocab, HandlerMaxEvents, {PlainReply})
  /\ cachedToken = None
  /\ cachedTokenExpire = 0

\* Date.now() advances to a later time
Offsets == {0, 1, 2, 27, 28, 29, 30, 31, 32}
Times == {t \in TokenTtl..MaxNow : t - TokenTtl \in Offsets}
Tick(t) ==
  /\ t > now
  /\ now' = t
  /\ UNCHANGED <<handlerVars, cachedToken, cachedTokenExpire, tokenFetches, callers, issuedAt,
                 lastReturn>>

\* getAccessToken() up to its first await: the cached token is returned at once, or
\* the call is suspended at await auth.getClient()
CallGetAccessToken(c) ==
  /\ callers[c].pc = "idle"
  /\ IF CacheFresh(cachedToken, cachedTokenExpire, now)
     THEN /\ lastReturn' = Some(Return(cachedToken[1], now, TRUE))
          /\ UNCHANGED callers
     ELSE /\ tokenFetches < MaxTokens
          /\ callers' = [callers EXCEPT ![c] = Caller("awaitClient", now)]
          /\ UNCHANGED lastReturn
  /\ UNCHANGED <<handlerVars, tokenVars, tokenFetches, issuedAt>>

\* await auth.getClient() is over: client.getAccessToken() asks the provider, or the
\* call throws
ClientResolved(c, ok) ==
  /\ callers[c].pc = "awaitClient"
  /\ IF ok
     THEN /\ callers' = [callers EXCEPT ![c].pc = "awaitToken"]
          /\ tokenFetches' = tokenFetches + 1
     ELSE /\ callers' = [callers EXCEPT ![c] = Caller("idle", 0)]
          /\ UNCHANGED tokenFetches
  /\ UNCHANGED <<handlerVars, tokenVars, issuedAt, lastReturn>>

\* await client.getAccessToken() is over: the token is stored with the expiry counted
\* from the call's own now and returned, or the call throws
ProviderResolved(c, outcome) ==
  /\ callers[c].pc = "awaitToken"
  /\ callers' = [callers EXCEPT ![c] = Caller("idle", 0)]
  /\ IF outcome = "token"
     THEN /\ issuedAt' = Append(issuedAt, now)
          /\ cachedToken' = Some(Len(issuedAt) + 1)
          /\ cachedTokenExpire' = callers[c].start + TokenTtl
          /\ lastReturn' = Some(Return(Len(issuedAt) + 1, callers[c].start, FALSE))
     ELSE UNCHANGED <<issuedAt, cachedToken, cachedTokenExpire, lastReturn>>
  /\ UNCHANGED <<handlerVars, now, tokenFetches>>

NextToken ==
  \/ \E t \in Times : Tick(t)
  \/ \E c \in Callers : CallGetAccessToken(c)
  \/ \E c \in Callers, ok \in BOOLEAN : ClientResolved(c, ok)
  \/ \E c \in Callers, o \in TokenOutcomes : ProviderResolved(c, o)

SpecToken == InitToken /\ [][NextToken]_vars

Next ==
  \/ PostChatCompletions
  \/ \E o \in TokenOutcomes : TokenResolved(o)
  \/ \E o \in FetchOutcomes, st \in UpstreamStatuses, m \in replies \cup Echoes :
       FetchResolved(o, st, m)
  \/ \E e \in vocab : UpstreamSend(e)
  \/ \E k \in ChunkSizes \cup {Len(wire)} : ReadChunk(k)
  \/ ReadDone
  \/ ReadError

Spec == Init /\ [][Next]_vars
SpecSplit == InitSplit /\ [][Next]_vars
SpecIgnored == InitIgnored /\ [][Next]_vars
SpecRole == InitRole /\ [][Next]_vars
SpecHandler == InitHandler /\ [][Next]_vars
SpecText == InitText /\ [][Next]_vars
SpecCalls == InitCalls /\ [][Next]_vars

\* The loop has bytes to read: the states in which some ReadChunk(k) is enabled
ReadChunkEnabled == pc = "reading" /\ wire # <<>>

\* The awaits of the handler come back: the token provider and the fetch answer or
\* fail, the body delivers the bytes it holds, and once it has delivered them it ends.
\* The third conjunct is weak fairness of ReadChunk, written out with its enabling
\* condition.
Fairness ==
  /\ WF_vars(\E o \in TokenOutcomes : TokenResolved(o))
  /\ WF_vars(\E o \in FetchOutcomes, st \in UpstreamStatuses, m \in replies \cup Echoes :
               FetchResolved(o, st, m))
  /\ \/ []<>(~ReadChunkEnabled)
     \/ []<><<\E k \in ChunkSizes \cup {Len(wire)} : ReadChunk(k)>>_vars
  /\ WF_vars(ReadDone)
SpecLive == InitLive /\ [][Next]_vars /\ Fairness

\* ------------------------------------------------------------- properties
StopChunk == Chunk(id, FALSE, None, Some("stop"))
ErrorChunk == Chunk(id, FALSE, None, Some("error"))
ContentChunk(first, text) == Chunk(id, first, Some(text), None)

\* the text a text-delta event of the vocabulary carries
TextOf(e) ==
  CASE e = "text_Hel" -> "Hel" [] e = "text_lo" -> "lo" [] e = "text_e" -> EAcute
    [] OTHER -> ""

IsSuccess(status) == status >= 200 /\ status <= 299

\* all bytes the upstream has sent, and those the handler has read
BytesOf(events) == ConcatRange([i \in 1..Len(events) |-> EventBytes(events[i])], 1, Len(events))
AllBytes == BytesOf(sent)
Delivered == SubSeq(AllBytes, 1, Len(AllBytes) - Len(wire))

\* the transcoder as streamChatCompletion starts it, and after one chunk of bytes
StartTranscoder == [NewTranscoder(now, StreamHeaders(NewRes)) EXCEPT !.id = id]
WholeDelivery(bytes) == OnChunk(StartTranscoder, bytes)

\* the failures of the transport: the token, the fetch, the upstream status, the read
TransportFailures == {"token", "fetch", "status", "read"}

\* C1: a stream of n >= 1 non-empty text deltas and then message_stop gives n content
\* chunks in upstream order, only the first with the role, then the stop chunk, then
\* the marker, and the response is ended once.
TextsThenStop(events) ==
  /\ Len(events) >= 2
  /\ events[Len(events)] = "stop"
  /\ \A i \in 1..(Len(events) - 1) : events[i] \in {"text_Hel", "text_lo"}
ExpectedTextFrames(events) ==
  [i \in 1..(Len(events) - 1) |-> ContentChunk(i = 1, TextOf(events[i]))]
    \o <<StopChunk, DoneFrame>>
C1_TextsThenStop ==
  (pc = "done" /\ wire = <<>> /\ TextsThenStop(sent))
    => /\ res.frames = ExpectedTextFrames(sent)
       /\ res.late = <<>>
       /\ res.ends = 1
C1_Witness ==
  /\ pc = "done"
  /\ failure = "none"
  /\ sent = <<"text_Hel", "text_lo", "stop">>
  /\ res.frames = <<ContentChunk(TRUE, "Hel"), ContentChunk(FALSE, "lo"), StopChunk, DoneFrame>>
  /\ res.ends = 1

\* C2: when the upstream body ends without a transport error and without message_stop,
\* the last frames are the stop chunk and the marker, and the response is ended once.
C2_EndWithoutStop ==
  (pc = "done" /\ streaming /\ IsSuccess(upstreamStatus) /\ failure \notin TransportFailures
     /\ \A i \in 1..Len(sent) : sent[i] # "stop")
    => /\ Len(res.frames) >= 2
       /\ res.frames[Len(res.frames) - 1] = StopChunk
       /\ res.frames[Len(res.frames)] = DoneFrame
       /\ res.ends = 1

\* C3: whatever the chunks the upstream bytes arrive in, what has been written is what
\* one chunk holding the same bytes writes, while reading and after the end.
SameOutput(a, b) == a.frames = b.frames /\ a.late = b.late /\ a.ends = b.ends
C3_ChunkingInvariant ==
  /\ pc = "reading" => SameOutput(res, WholeDelivery(Delivered).res)
  /\ (pc = "done" /\ failure = "none") => SameOutput(res, OnEnd(WholeDelivery(Delivered)).res)
  /\ (pc = "done" /\ failure = "event") => SameOutput(res, OnError(WholeDelivery(Delivered)).res)
C3_Witness ==
  /\ pc = "reading"
  /\ res.frames # <<>>
  /\ buffer # <<>>
  /\ buffer[Len(buffer)] = NL
  /\ IndexOfBlankLine(buffer) = -1
  /\ wire # <<>>
  /\ Head(wire) = NL

\* C4 (as claimed): a streaming request with a non-empty tools list, whatever its
\* entries, is answered 400 with the error envelope; no token is fetched, nothing is
\* posted upstream, no event-stream header is set and the transcoder is not invoked.
NoUpstreamWork ==
  /\ tokenFetches = 0
  /\ upstreamCalls = <<>>
  /\ ~streaming
  /\ res.contentType # Some("text/event-stream")
  /\ res.frames = <<>>
Rejected400 ==
  pc = "done" => res.status = 400 /\ res.json = Some(ErrorBody("invalid_request_error"))
C4_AnyToolsRejected ==
  (WantsStream(req) /\ req.tools # None /\ req.tools[1] # <<>>)
    => NoUpstreamWork /\ Rejected400

\* C4 (amended): the same for a tools list with at least one entry of type "function"
\* that has a function object; entries convertTools skips do not count as tools.
IsFunctionTool(t) == t.kind = "object" /\ t.type = Some("function") /\ t.function # None
DeclaresFunctionTool(body) ==
  body.tools # None /\ \E i \in 1..Len(body.tools[1]) : IsFunctionTool(body.tools[1][i])
C4_FunctionToolsRejected ==
  (WantsStream(req) /\ DeclaresFunctionTool(req)) => NoUpstreamWork /\ Rejected400
C4_Witness ==
  /\ pc = "done"
  /\ req.stream = Some(TRUE)
  /\ req.model = Some("claude-a")
  /\ req.tools = Some(<<RetrievalTool, FunctionTool>>)
  /\ res.status = 400
  /\ res.json = Some(ErrorBody("invalid_request_error"))

\* C5: with tool_choice "none" no body posted upstream has a tool_choice or a tools
\* field, whether or not the request had a tools list.
C5_NoneSendsNoTools ==
  req.tool_choice = Some(ChoiceString("none"))
    => \A i \in 1..Len(upstreamCalls) :
         upstreamCalls[i].tool_choice = None /\ upstreamCalls[i].tools = None

\* C6: a transport failure in the streaming path before the stream is closed writes,
\* after the content chunks so far, one error chunk and the marker, ends the response
\* once, leaves the status at 200 with no JSON body, and writes no stop chunk.
C6_ErrorInBand ==
  (pc = "done" /\ streaming /\ failure \in TransportFailures /\ ~closed)
    => /\ Len(res.frames) >= 2
       /\ res.frames[Len(res.frames)] = DoneFrame
       /\ res.frames[Len(res.frames) - 1] = ErrorChunk
       /\ \A i \in 1..(Len(res.frames) - 2) :
            res.frames[i].kind = "chunk" /\ res.frames[i].finish = None
       /\ res.late = <<>>
       /\ res.ends = 1
       /\ res.status = 200
       /\ res.json = None
       /\ res.contentType = Some("text/event-stream")
C6_Witness ==
  /\ pc = "done"
  /\ failure = "read"
  /\ res.frames = <<ContentChunk(TRUE, "Hel"), ErrorChunk, DoneFrame>>
  /\ res.ends = 1
  /\ res.status = 200

\* C7 (as claimed): a non-success upstream status S is the status of the response, with
\* the error envelope, streaming or not.
UpstreamRejected == upstreamStatus # 0 /\ ~IsSuccess(upstreamStatus)
C7_StatusPassedThrough ==
  (pc = "done" /\ UpstreamRejected)
    => res.status = upstreamStatus /\ res.json = Some(ErrorBody("internal_error"))

\* C7 (amended): so it is for a non-streaming request; for a streaming request the
\* status stays 200 and the failure is the error chunk and the marker in the stream.
C7_StatusPassedThroughNonStreaming ==
  (pc = "done" /\ UpstreamRejected)
    => IF streaming
       THEN /\ res.status = 200
            /\ res.json = None
            /\ res.frames = <<ErrorChunk, DoneFrame>>
       ELSE /\ res.status = upstreamStatus
            /\ res.json = Some(ErrorBody("internal_error"))
            /\ res.frames = <<>>
C7_Witness ==
  /\ pc = "done"
  /\ ~streaming
  /\ upstreamStatus = 429
  /\ res.status = 429
  /\ res.json = Some(ErrorBody("internal_error"))

\* C8: events the transcoder has no branch for (a non-text delta, another event type)
\* write nothing and change nothing: once all bytes are read, the output and the flags
\* are those of the same stream without these events.
Ignored(e) == e \in {"input_json", "ping"}
WithoutIgnored(events) == SelectSeq(events, LAMBDA e : ~Ignored(e))
C8_IgnoredEventsHaveNoEffect ==
  (pc = "reading" /\ wire = <<>>)
    => LET ref == WholeDelivery(BytesOf(WithoutIgnored(sent)))
       IN /\ SameOutput(res, ref.res)
          /\ firstChunk = ref.firstChunk
          /\ closed = ref.closed
C8_Witness ==
  /\ pc = "reading"
  /\ wire = <<>>
  /\ sent = <<"input_json", "ping", "text_Hel">>
  /\ res.frames = <<ContentChunk(TRUE, "Hel")>>
  /\ ~closed

\* C9 (as claimed): the finish_reason of the non-streaming response follows the table,
\* with every non-null value outside it, the empty string too, giving "stop".
ClaimedFinishReason(stopReason) ==
  IF stopReason = None \/ stopReason[1] = JNull THEN None
  ELSE IF stopReason[1] = JStr("max_tokens") THEN Some("length")
  ELSE IF stopReason[1] = JStr("tool_use") THEN Some("tool_calls")
  ELSE Some("stop")
Answered == pc = "done" /\ upstreamJson # None
C9_StopReasonTable ==
  Answered => res.json[1].finish_reason = ClaimedFinishReason(upstreamJson[1].stop_reason)

\* C9 (amended): the same table, except that the empty string (like every falsy value)
\* gives null as an absent stop reason does.
AmendedFinishReason(stopReason) ==
  IF stopReason = None \/ stopReason[1] \in {JNull, JStr("")} THEN None
  ELSE ClaimedFinishReason(stopReason)
C9_StopReasonTableFalsyNull ==
  Answered => res.json[1].finish_reason = AmendedFinishReason(upstreamJson[1].stop_reason)
C9_Witness ==
  /\ Answered
  /\ upstreamJson[1].stop_reason = Some(JStr(""))
  /\ res.json[1].finish_reason = None

\* C10 (as claimed): usage is in the response only when both counts are numbers, and
\* then it holds them and their sum; otherwise there is no usage object.
InputTokens == IF upstreamJson[1].usage = None THEN None ELSE upstreamJson[1].usage[1].input_tokens
OutputTokens == IF upstreamJson[1].usage = None THEN None ELSE upstreamJson[1].usage[1].output_tokens
FullUsage ==
  Some([prompt_tokens |-> Some(InputTokens[1].n), completion_tokens |-> Some(OutputTokens[1].n),
        total_tokens |-> Some(InputTokens[1].n + OutputTokens[1].n)])
C10_UsageOnlyWhenBothNumeric ==
  Answered => res.json[1].usage =
                IF IsNumber(InputTokens) /\ IsNumber(OutputTokens) THEN FullUsage ELSE None

\* C10 (amended): usage is left out only when neither count is a number; with both it
\* holds them and their sum; with one, that count, null for the other and a null total.
C10_UsageWhenEitherNumeric ==
  Answered => res.json[1].usage =
                IF IsNumber(InputTokens) /\ IsNumber(OutputTokens) THEN FullUsage
                ELSE IF IsNumber(InputTokens)
                THEN Some([prompt_tokens |-> Some(InputTokens[1].n), completion_tokens |-> None,
                           total_tokens |-> None])
                ELSE IF IsNumber(OutputTokens)
                THEN Some([prompt_tokens |-> None, completion_tokens |-> Some(OutputTokens[1].n),
                           total_tokens |-> None])
                ELSE None
C10_Witness ==
  /\ Answered
  /\ upstreamJson[1].usage = Some(Usage(Some(JNum(3)), None))
  /\ res.json[1].usage = Some([prompt_tokens |-> Some(3), completion_tokens |-> None,
                               total_tokens |-> None])

\* C11: for a conversation of a system message and then only user / assistant turns
\* with string content, the texts read back from the posted body (the system string,
\* the concatenated text blocks of each message) are the original texts, with the same
\* roles in the same order.
Posted == upstreamCalls # <<>>
TextOnlyConversation(msgs) ==
  /\ Len(msgs) >= 1
  /\ msgs[1].role = "system"
  /\ \A i \in 2..Len(msgs) : msgs[i].role \in {"user", "assistant"}
  /\ \A i \in 1..Len(msgs) :
       /\ msgs[i].content # None
       /\ msgs[i].content[1].kind = "string"
       /\ msgs[i].tool_calls = None
OriginalTexts(msgs) ==
  [i \in 1..Len(msgs) |-> [role |-> msgs[i].role, text |-> msgs[i].content[1].str]]
ReExtracted(body) ==
  <<[role |-> "system", text |-> IF body.system = None THEN <<>> ELSE body.system[1]]>>
    \o [i \in 1..Len(body.messages) |->
          [role |-> body.messages[i].role, text |-> CombinedText(body.messages[i].content)]]
C11_TextRoundTrip ==
  (Posted /\ TextOnlyConversation(req.messages))
    => ReExtracted(upstreamCalls[1]) = OriginalTexts(req.messages)

\* C12 (as claimed): when the upstream answers with the tool_use blocks an assistant
\* message with function tool_calls was translated to, the tool_calls of the response
\* are as many, in the same order, each with the same function name and with arguments
\* that parse to the value the original arguments parse to.
IsFunctionCall(tc) == tc.kind = "object" /\ tc.type = Some("function") /\ tc.function # None
HasJsonArguments(tc) ==
  /\ tc.function[1].arguments # None
  /\ tc.function[1].arguments[1].kind = "string"
  /\ ParseArguments(tc.function[1].arguments[1].text).ok
ParsedArguments(tc) == ParseArguments(tc.function[1].arguments[1].text).value
CarriesFunctionCalls(msg) ==
  /\ msg.role = "assistant"
  /\ msg.tool_calls # None
  /\ msg.tool_calls[1] # <<>>
  /\ \A k \in 1..Len(msg.tool_calls[1]) :
       IsFunctionCall(msg.tool_calls[1][k]) /\ HasJsonArguments(msg.tool_calls[1][k])
EchoOf(msg) == Answered /\ upstreamJson[1].content = ConvertMessage(msg).content
CallsRecovered(msg) ==
  LET calls == msg.tool_calls[1]
      back == res.json[1].tool_calls
  IN /\ back # None
     /\ Len(back[1]) = Len(calls)
     /\ \A k \in 1..Len(calls) :
          /\ back[1][k].function.name = calls[k].function[1].name
          /\ ParseArguments(back[1][k].function.arguments).ok
          /\ ParseArguments(back[1][k].function.arguments).value = ParsedArguments(calls[k])
C12_ToolCallRoundTrip ==
  \A i \in 1..Len(req.messages) :
    (CarriesFunctionCalls(req.messages[i]) /\ EchoOf(req.messages[i]))
      => CallsRecovered(req.messages[i])

\* C12 (amended): the same for calls whose arguments parse to a value other than null;
\* arguments of null come back as the empty object.
NoNullArguments(msg) ==
  \A k \in 1..Len(msg.tool_calls[1]) : ParsedArguments(msg.tool_calls[1][k]).kind # "null"
C12_ToolCallRoundTripNonNull ==
  \A i \in 1..Len(req.messages) :
    (CarriesFunctionCalls(req.messages[i]) /\ NoNullArguments(req.messages[i])
       /\ EchoOf(req.messages[i]))
      => CallsRecovered(req.messages[i])
C12_Witness ==
  /\ Answered
  /\ Len(req.messages) = 1
  /\ CarriesFunctionCalls(req.messages[1])
  /\ req.messages[1].tool_calls[1][1].function[1].arguments = Some(ArgumentsString(ArgsASpaced))
  /\ res.json[1].tool_calls # None
  /\ Len(res.json[1].tool_calls[1]) = 2
  /\ res.json[1].tool_calls[1][1].function = [name |-> Some("f"), arguments |-> ArgsA]
  /\ res.json[1].tool_calls[1][2].function = [name |-> Some("g"), arguments |-> <<"{", "}">>]

\* C13 (as claimed): when the effective model, body.model or the default model when
\* body.model is absent, is not in the allow-list, the answer is 400 with the error
\* envelope; no token is fetched, nothing is posted upstream and no event-stream header
\* is sent, whatever the stream flag.
ClaimedEffectiveModel(body, default) == IF body.model = None THEN default ELSE body.model[1]
C13_ModelRejected ==
  ClaimedEffectiveModel(req, defaultModel) \notin AllowedModels
    => NoUpstreamWork /\ Rejected400

\* C13 (amended): the default model also stands in for a model that is null or the
\* empty string.
FalsyAwareEffectiveModel(body, default) ==
  IF body.model = None \/ body.model[1] = "" THEN default ELSE body.model[1]
C13_ModelRejectedFalsyDefault ==
  FalsyAwareEffectiveModel(req, defaultModel) \notin AllowedModels
    => NoUpstreamWork /\ Rejected400
C13_Witness ==
  /\ pc = "done"
  /\ req.model = None
  /\ defaultModel = "claude-b"
  /\ req.stream = Some(TRUE)
  /\ res.status = 400
  /\ res.json = Some(ErrorBody("invalid_request_error"))
  /\ tokenFetches = 0

\* C14: when streamChatCompletion has returned, the frames it wrote hold exactly one
\* chunk with a finish_reason and exactly one marker, the marker is the last frame
\* written and comes right after that chunk, and the response was ended exactly once.
Written == res.frames \o res.late
TerminalChunks(fs) == {i \in 1..Len(fs) : fs[i].kind = "chunk" /\ fs[i].finish # None}
Markers(fs) == {i \in 1..Len(fs) : fs[i].kind = "done"}
C14_OneTerminalFrame ==
  (pc = "done" /\ streaming)
    => /\ Cardinality(TerminalChunks(Written)) = 1
       /\ Cardinality(Markers(Written)) = 1
       /\ Written[Len(Written)] = DoneFrame
       /\ TerminalChunks(Written) = {Len(Written) - 1}
       /\ res.ends = 1

\* C15: once message_stop has been handled (closed), the last frames are the stop chunk
\* and the marker, nothing was written after the response was ended, and it was ended
\* once, whatever events follow in the same chunk or in later chunks.
C15_NothingAfterStop ==
  closed
    => /\ Len(res.frames) >= 2
       /\ res.frames[Len(res.frames) - 1] = StopChunk
       /\ res.frames[Len(res.frames)] = DoneFrame
       /\ res.late = <<>>
       /\ res.ends = 1

\* C16: a malformed event (no data line, an empty payload, the payload [DONE], a payload
\* that is not JSON, or JSON that is not an event object) never ends the stream with an
\* error, and once all bytes are read the output and the flags are those of the same
\* stream without the malformed events.
Malformed(e) ==
  e \in {"null", "number", "string", "bad_json", "done_marker", "empty_data", "comment", "blank"}
WithoutMalformed(events) == SelectSeq(events, LAMBDA e : ~Malformed(e))
C16_MalformedSkipped ==
  /\ failure # "event"
  /\ (pc = "reading" /\ wire = <<>>)
       => LET ref == WholeDelivery(BytesOf(WithoutMalformed(sent)))
          IN /\ SameOutput(res, ref.res)
             /\ firstChunk = ref.firstChunk
             /\ closed = ref.closed

\* C17: a read error raised once message_stop has been handled changes nothing of the
\* response: no error chunk, no second marker, no second end.
C17_ErrorAfterStopIgnored ==
  [][(closed /\ failure = "none" /\ failure' = "read") => res' = res]_vars
C17_Witness ==
  /\ pc = "done"
  /\ failure = "read"
  /\ closed
  /\ res.frames = <<ContentChunk(TRUE, "Hel"), StopChunk, DoneFrame>>
  /\ res.late = <<>>
  /\ res.ends = 1

\* C18: of the frames written, the first content chunk and no other frame has the role
\* marker; every chunk has the id of the stream; and a text delta with empty or missing
\* text writes nothing and leaves the marker for the next text delta: once all bytes
\* are read, the output and the flags are those of the same stream without such deltas.
ContentFrames(fs) == {i \in 1..Len(fs) : fs[i].kind = "chunk" /\ fs[i].content # None}
EmptyDelta(e) == e \in {"text_empty", "no_text"}
WithoutEmptyDeltas(events) == SelectSeq(events, LAMBDA e : ~EmptyDelta(e))
C18_RoleMarkerAndId ==
  /\ \A i \in 1..Len(Written) :
       Written[i].role <=> /\ i \in ContentFrames(Written)
                           /\ \A j \in ContentFrames(Written) : i <= j
  /\ \A i \in 1..Len(Written) :
       Written[i].kind = "chunk" => (id # None /\ Written[i].id = id)
  /\ (pc = "reading" /\ wire = <<>>)
       => LET ref == WholeDelivery(BytesOf(WithoutEmptyDeltas(sent)))
          IN /\ SameOutput(res, ref.res)
             /\ firstChunk = ref.firstChunk
             /\ closed = ref.closed
C18_Witness ==
  /\ pc = "reading"
  /\ wire = <<>>
  /\ sent = <<"text_empty", "text_Hel", "text_lo">>
  /\ res.frames = <<ContentChunk(TRUE, "Hel"), ContentChunk(FALSE, "lo")>>
  /\ res.frames[1].id = res.frames[2].id
  /\ ~firstChunk

\* C19: the messages posted upstream are the non-system inbound messages in their
\* order; each has role user or assistant and a non-empty content list; a tool message
\* is one tool_result block under role user; a user / assistant message with no
\* tool_use block and no text block is the single block {type: "text", text: ""}.
NonSystem(msgs) == SelectSeq(msgs, LAMBDA m : m.role # "system")
HasSubstance(blocks) ==
  \E k \in 1..Len(blocks) :
    blocks[k].type = "tool_use" \/ (blocks[k].type = "text" /\ blocks[k].text # <<>>)
HasVisibleString(msg) ==
  /\ msg.content # None
  /\ msg.content[1].kind = "string"
  /\ \E k \in 1..Len(msg.content[1].str) : ~IsSpace(msg.content[1].str[k])
C19_UpstreamMessagesWellFormed ==
  Posted
    => LET out == upstreamCalls[1].messages
           src == NonSystem(req.messages)
       IN /\ Len(out) = Len(src)
          /\ \A i \in 1..Len(out) :
               /\ out[i].role \in {"user", "assistant"}
               /\ out[i].content # <<>>
               /\ IF src[i].role = "tool"
                  THEN /\ out[i].role = "user"
                       /\ Len(out[i].content) = 1
                       /\ out[i].content[1].type = "tool_result"
                  ELSE /\ out[i].role = IF src[i].role = "assistant" THEN "assistant" ELSE "user"
                       /\ \A k \in 1..Len(out[i].content) : out[i].content[k].type # "tool_result"
                       /\ HasSubstance(out[i].content) \/ out[i].content = <<TextBlock(<<>>)>>
               /\ HasVisibleString(src[i])
                    => out[i].content[Len(out[i].content)].text = src[i].content[1].str
C19_Witness ==
  /\ Posted
  /\ Len(req.messages) = 2
  /\ req.messages[1].role = "assistant"
  /\ req.messages[1].tool_calls # None
  /\ req.messages[2] = Message("tool", None, None, Some("f"))
  /\ upstreamCalls[1].messages =
       <<[role |-> "assistant", content |-> <<TextBlock(<<>>)>>],
         [role |-> "user", content |-> <<ToolResultBlock("f", <<>>)>>]>>

\* C20 (as claimed): the system field posted upstream is the texts of all system
\* messages, in their order and wherever they occur, joined by a blank line, and it is
\* absent exactly when the request has no system message.
SystemTexts(msgs) ==
  LET sys == SelectSeq(msgs, LAMBDA m : m.role = "system")
  IN [i \in 1..Len(sys) |-> sys[i].content[1].str]
JoinedByBlankLine(texts) ==
  ConcatRange([i \in 1..Len(texts) |-> IF i = 1 THEN texts[i] ELSE <<NL, NL>> \o texts[i]],
              1, Len(texts))
C20_SystemJoined ==
  Posted
    => upstreamCalls[1].system =
         IF SystemTexts(req.messages) = <<>> THEN None
         ELSE Some(JoinedByBlankLine(SystemTexts(req.messages)))

\* C20 (amended): only the system messages with a non-empty text count: their texts are
\* joined, and the field is absent exactly when there is none.
NonEmptyTexts(texts) == SelectSeq(texts, LAMBDA t : t # <<>>)
C20_NonEmptySystemJoined ==
  Posted
    => upstreamCalls[1].system =
         IF NonEmptyTexts(SystemTexts(req.messages)) = <<>> THEN None
         ELSE Some(JoinedByBlankLine(NonEmptyTexts(SystemTexts(req.messages))))
C20_Witness ==
  /\ Posted
  /\ req.messages = <<StringMessage("system", <<"You are X">>), StringMessage("user", <<"Hi">>),
                      StringMessage("system", <<"Be brief">>)>>
  /\ upstreamCalls[1].system = Some(<<"You are X", NL, NL, "Be brief">>)
  /\ upstreamCalls[1].messages = <<[role |-> "user", content |-> <<TextBlock(<<"Hi">>)>>]>>

\* C21: under every interleaving of getAccessToken calls, a call returns the cached
\* token without asking the provider only if a token is cached and its now is more
\* than the safety margin before the cached expiry; a call that refreshes started when
\* that was not so, and stores the new token with the expiry 30 minutes after its own
\* start; a call that throws leaves the cache as it was; and no call returns a token
\* that the provider issued more than 29 minutes before the call.
FreshAt(time) == cachedToken # None /\ cachedTokenExpire - time > SafetyMargin
CachedReturnStep ==
  (lastReturn' # lastReturn /\ lastReturn'[1].cached)
    => /\ FreshAt(now)
       /\ lastReturn' = Some(Return(cachedToken[1], now, TRUE))
       /\ UNCHANGED <<tokenFetches, issuedAt, cachedToken, cachedTokenExpire>>
RefreshStartStep ==
  \A c \in Callers :
    (callers[c].pc = "idle" /\ callers'[c].pc # "idle")
      => ~FreshAt(now) /\ callers'[c].start = now
StoreStep ==
  \A c \in Callers :
    (callers[c].pc = "awaitToken" /\ callers'[c].pc = "idle" /\ issuedAt' # issuedAt)
      => /\ issuedAt' = Append(issuedAt, now)
         /\ cachedToken' = Some(Len(issuedAt'))
         /\ cachedTokenExpire' = callers[c].start + TokenTtl
         /\ lastReturn' = Some(Return(Len(issuedAt'), callers[c].start, FALSE))
FailedRefreshStep ==
  /\ \A c \in Callers :
       (callers[c].pc # "idle" /\ callers'[c].pc = "idle" /\ issuedAt' = issuedAt)
         => UNCHANGED <<cachedToken, cachedTokenExpire, lastReturn>>
  /\ issuedAt' = issuedAt => UNCHANGED <<cachedToken, cachedTokenExpire>>
TokenAge ==
  lastReturn # None
    => lastReturn[1].start - issuedAt[lastReturn[1].token] <= TokenTtl - SafetyMargin
Terminated ==
  /\ res.ends >= 1
  /\ Len(res.frames) >= 2
  /\ res.frames[Len(res.frames)] = DoneFrame
  /\ res.frames[Len(res.frames) - 1] \in {StopChunk, ErrorChunk}
C22_StreamTerminates == streaming ~> Terminated
C22_Witness ==
  /\ pc = "done"
  /\ streaming
  /\ failure = "none"
  /\ sent = <<"bad_json", "text_Hel">>
  /\ res.frames = <<ContentChunk(TRUE, "Hel"), StopChunk, DoneFrame>>
  /\ res.ends = 1

====
